---- MODULE Spec2Model ----
(***************************************************************************)
(* Model of juniper_codegen's `#[graphql_interface]` attribute expansion   *)
(* (src/juniper_codegen/src/graphql_interface/attr.rs): expand_on_trait,   *)
(* TraitMethod::parse / parse_downcast / parse_field /                     *)
(* parse_field_argument and the err_* helpers.                             *)
(*                                                                         *)
(* Identifiers and names are sequences of one-character strings, so that   *)
(* prefix tests and case conversion are computed, not assumed.             *)
(* Option<T> is the empty sequence (None) or a one-element sequence.       *)
(***************************************************************************)
EXTENDS Naturals, Sequences, FiniteSets

VARIABLES
    pc,            \* position inside expand_on_trait / the function under test
    meta,          \* InterfaceMeta: the declaration-level options
    items,         \* ast.items: the trait's methods, in declaration order
    cursor,        \* index of the next element of the loop being run
    implementers,  \* Vec<ImplementerDefinition>, the registry
    fields,        \* Vec<InterfaceFieldDefinition>
    diags,         \* diagnostics emitted so far (proc_macro_error's storage)
    generated,     \* Option<InterfaceDefinition>
    fn_in,         \* input of the function applied in SpecArg / SpecField
    fn_out         \* its result

vars == <<pc, meta, items, cursor, implementers, fields, diags, generated,
          fn_in, fn_out>>

None == <<>>
Some(x) == <<x>>
IsSome(o) == Len(o) > 0
Unwrap(o) == o[1]

(***************************************************************************)
(* Bounds of the model.                                                    *)
(***************************************************************************)
MaxMethods == 3
MaxArgs == 2

(***************************************************************************)
(* Strings.                                                                *)
(***************************************************************************)
S_context == <<"c", "o", "n", "t", "e", "x", "t">>
S_ctx == <<"c", "t", "x">>
S_executor == <<"e", "x", "e", "c", "u", "t", "o", "r">>
S_self == <<"s", "e", "l", "f">>
S_id == <<"i", "d">>
S_my_id == <<"m", "y", "_", "i", "d">>
S__id == <<"_", "i", "d">>
S___id == <<"_", "_", "i", "d">>
S___my_id == <<"_", "_", "m", "y", "_", "i", "d">>
S_x_y == <<"x", "_", "y">>

Lower == <<"a", "b", "c", "d", "e", "f", "g", "h", "i", "j", "k", "l", "m",
           "n", "o", "p", "q", "r", "s", "t", "u", "v", "w", "x", "y", "z">>
Upper == <<"A", "B", "C", "D", "E", "F", "G", "H", "I", "J", "K", "L", "M",
           "N", "O", "P", "Q", "R", "S", "T", "U", "V", "W", "X", "Y", "Z">>

\* char::to_uppercase on the ASCII letters the model uses
ToUpper(c) ==
    IF \E k \in 1..Len(Lower) : Lower[k] = c
    THEN Upper[CHOOSE k \in 1..Len(Lower) : Lower[k] = c]
    ELSE c

\* A prefix test that never finds the prefix.
StartsWithDunderNever(s) == FALSE

\* str::starts_with("__")
StartsWithDunder(s) == Len(s) >= 2 /\ s[1] = "_" /\ s[2] = "_"

Drop(s, n) == SubSeq(s, n + 1, Len(s))

\* str::split('_'): the pieces between underscores, empty pieces included
RECURSIVE SplitUnderscore(_)
SplitUnderscore(s) ==
    IF \E k \in 1..Len(s) : s[k] = "_"
    THEN LET k == CHOOSE k \in 1..Len(s) :
                      s[k] = "_" /\ \A j \in 1..(k - 1) : s[j] # "_"
         IN <<SubSeq(s, 1, k - 1)>> \o SplitUnderscore(Drop(s, k))
    ELSE <<s>>

RECURSIVE CamelParts(_, _)
CamelParts(parts, k) ==
    IF k > Len(parts) THEN <<>>
    ELSE LET part == parts[k]
             piece == IF k = 1 THEN part
                      ELSE IF Len(part) = 1 THEN <<ToUpper(part[1])>>
                      ELSE IF Len(part) > 1
                           THEN <<ToUpper(part[1])>> \o Drop(part, 1)
                      ELSE <<>>
         IN piece \o CamelParts(parts, k + 1)

\* util::to_camel_case: a leading `__` is kept, a single leading `_` is
\* dropped, every later `_x` becomes `X`.
to_camel_case(s) ==
    LET dest == IF StartsWithDunder(s) THEN <<"_", "_">> ELSE <<>>
        rest == IF StartsWithDunder(s) THEN Drop(s, 2)
                ELSE IF Len(s) >= 1 /\ s[1] = "_" THEN Drop(s, 1)
                ELSE s
    IN dest \o CamelParts(SplitUnderscore(rest), 1)

(***************************************************************************)
(* Diagnostics. `at` is the source location (span) the diagnostic points   *)
(* at: the item (<<"trait">>, <<"meta">>, <<"external", j>>,               *)
(* <<"method", j>>, <<"method", j, "arg", k>> or <<"call_site">>) and the   *)
(* part of it; `about` is what the message names.                          *)
(***************************************************************************)
Diag(kind, at, about) == [kind |-> kind, at |-> at, about |-> about]

\* Span::call_site(): the span of a token sequence that has no tokens, such
\* as an empty parameter list; it is the macro invocation, not a place
\* inside an item.
CallSite == <<<<"call_site">>, "call_site">>

\* GraphQLScope::no_double_underscore
NoDoubleUnderscore(at) == Diag("no_double_underscore", at, <<>>)

\* proc_macro_error::emit_error!(e) for a syn::Error of a from_attrs call
AttrError(at, why) == Diag("attr_error", at, <<why>>)

err_disallowed_attr(at, attr) == Diag("disallowed_attr", at, <<attr>>)

err_invalid_method_receiver(at) == Diag("invalid_method_receiver", at, <<>>)

err_no_method_receiver(at) == Diag("no_method_receiver", at, <<>>)

err_only_implementer_downcast(at) == Diag("only_implementer_downcast", at, <<>>)

(***************************************************************************)
(* Syntax of the declaration: types, patterns, function arguments.         *)
(***************************************************************************)
Type(reference, path) == [reference |-> reference, path |-> path]

\* TypeExt::unreferenced: the type behind a leading `&`
Unreferenced(ty) == Type(FALSE, ty.path)

PatIdent(ident) == [kind |-> "Ident", ident |-> ident]
PatOther == [kind |-> "Other", ident |-> <<>>]

\* The `#[graphql_interface(...)]` directives written on an argument.
ArgAttrs(malformed, context, executor, name, description, default) ==
    [malformed |-> malformed, context |-> context, executor |-> executor,
     name |-> name, description |-> description, default |-> default]

NoArgAttrs == ArgAttrs(FALSE, FALSE, FALSE, None, FALSE, FALSE)

Receiver(reference, mutability) ==
    [kind |-> "Receiver", reference |-> reference, mutability |-> mutability,
     attrs |-> NoArgAttrs, pat |-> PatOther, ty |-> Type(FALSE, "Self")]

Typed(attrs, pat, ty) ==
    [kind |-> "Typed", reference |-> FALSE, mutability |-> FALSE,
     attrs |-> attrs, pat |-> pat, ty |-> ty]

(***************************************************************************)
(* ArgumentMeta::from_attrs: the directive bag of an argument, or a parse  *)
(* failure. `context` / `executor` do not combine with `name`,             *)
(* `description` or `default`.                                             *)
(***************************************************************************)
ArgumentMetaFromAttrs(attrs) ==
    IF attrs.malformed
    THEN [ok |-> FALSE, err |-> "malformed", meta |-> attrs]
    ELSE IF (attrs.context \/ attrs.executor)
            /\ (IsSome(attrs.name) \/ attrs.description \/ attrs.default)
    THEN [ok |-> FALSE, err |-> "disallowed_combination", meta |-> attrs]
    ELSE [ok |-> TRUE, err |-> "", meta |-> attrs]

(***************************************************************************)
(* MethodArgument                                                          *)
(***************************************************************************)
ArgContext(ty) ==
    [kind |-> "Context", name |-> <<>>, ty |-> ty,
     description |-> FALSE, default |-> FALSE]
ArgExecutor ==
    [kind |-> "Executor", name |-> <<>>, ty |-> Type(FALSE, ""),
     description |-> FALSE, default |-> FALSE]
ArgRegular(name, ty, description, default) ==
    [kind |-> "Regular", name |-> name, ty |-> ty,
     description |-> description, default |-> default]

\* MethodArgument::context_ty
ArgContextTy(a) == IF a.kind = "Context" THEN Some(a.ty) ELSE None

Ret(value, ds) == [value |-> value, diags |-> ds]

\* ensure_no_regular_field_argument_meta: the first of name, description,
\* default that is present is reported; Some(()) is an empty diagnostic list.
ensure_no_regular_field_argument_meta_always_ok(m, at) == <<>>

ensure_no_regular_field_argument_meta(m, at) ==
    IF IsSome(m.name) THEN <<err_disallowed_attr(<<at, "name">>, "name")>>
    ELSE IF m.description
    THEN <<err_disallowed_attr(<<at, "description">>, "description")>>
    ELSE IF m.default
    THEN <<err_disallowed_attr(<<at, "default">>, "default")>>
    ELSE <<>>

\* A convention that knows `context` and `executor` but not `ctx`.
ConventionalArgumentNoCtx(argument) ==
    IF argument.pat.kind # "Ident" THEN None
    ELSE IF argument.pat.ident = S_context
    THEN Some([kind |-> "Context", name |-> <<>>,
               ty |-> [reference |-> FALSE, path |-> argument.ty.path],
               description |-> FALSE, default |-> FALSE])
    ELSE IF argument.pat.ident = S_executor
    THEN Some([kind |-> "Executor", name |-> <<>>,
               ty |-> [reference |-> FALSE, path |-> ""],
               description |-> FALSE, default |-> FALSE])
    ELSE None

\* The role an undecorated identifier has by convention (attr.rs 562-568).
ConventionalArgument(argument) ==
    IF argument.pat.kind # "Ident" THEN None
    ELSE IF argument.pat.ident = S_context \/ argument.pat.ident = S_ctx
    THEN Some(ArgContext(Unreferenced(argument.ty)))
    ELSE IF argument.pat.ident = S_executor THEN Some(ArgExecutor)
    ELSE None

\* TraitMethod::parse_field_argument. `at` is the argument's location.
parse_field_argument(argument, at) ==
    LET r == ArgumentMetaFromAttrs(argument.attrs)
        m == r.meta
        conv == ConventionalArgument(argument)
        ensured == ensure_no_regular_field_argument_meta(m, at)
        name == IF IsSome(m.name) THEN Unwrap(m.name)
                ELSE to_camel_case(argument.pat.ident)
    IN IF ~r.ok THEN Ret(None, <<AttrError(<<at, "attrs">>, r.err)>>)
       ELSE IF m.context
       THEN Ret(Some(ArgContext(Unreferenced(argument.ty))), <<>>)
       ELSE IF m.executor THEN Ret(Some(ArgExecutor), <<>>)
       ELSE IF IsSome(conv)
       THEN IF ensured # <<>> THEN Ret(None, ensured) ELSE Ret(conv, <<>>)
       ELSE IF ~IsSome(m.name) /\ argument.pat.kind # "Ident"
       THEN Ret(None, <<Diag("argument_not_identifier", <<at, "pat">>, <<>>)>>)
       ELSE IF StartsWithDunder(name)
       THEN Ret(None,
                <<NoDoubleUnderscore(
                      <<at, IF IsSome(m.name) THEN "name" ELSE "pat">>)>>)
       ELSE Ret(Some(ArgRegular(name, argument.ty, m.description, m.default)),
                <<>>)

(***************************************************************************)
(* Trait methods.                                                          *)
(***************************************************************************)
\* The `#[graphql_interface(...)]` directives written on a method.
MethodAttrs(malformed, ignore, downcast, name) ==
    [malformed |-> malformed, ignore |-> ignore, downcast |-> downcast,
     name |-> name]

\* syn::ReturnType: Default, or a type that either is `Option<&T>` or is not.
\* A written type is `parens` enclosing pairs of parentheses around a type
\* whose text is `path` once its lifetimes are taken out, `lifetimes` being
\* the lifetimes written in it (on its references and among its generic
\* arguments), in order: `(Foo<'a>)` is path "Foo<>", parens 1, lifetimes
\* <<"'a">>.
ReturnDefault == [kind |-> "Default", option_ref |-> FALSE, path |-> "()"]
ReturnTypeWritten(option_ref, path, parens, lifetimes) ==
    [kind |-> "Type", option_ref |-> option_ref, path |-> path,
     parens |-> parens, lifetimes |-> lifetimes]
ReturnType(option_ref, path) == ReturnTypeWritten(option_ref, path, 0, <<>>)

\* parse_quote! { () }: the unit type
UnitType == ReturnType(FALSE, "()")

\* TypeExt::unparenthesized: the type inside every enclosing pair of
\* parentheses.
RECURSIVE unparenthesized(_)
unparenthesized(ty) ==
    IF ty.parens = 0 THEN ty
    ELSE unparenthesized([ty EXCEPT !.parens = ty.parens - 1])

\* anonymize_lifetimes: every lifetime written in the type becomes `'_`.
anonymize_lifetimes(ty) ==
    [ty EXCEPT !.lifetimes = [k \in 1..Len(ty.lifetimes) |-> "'_"]]

\* syn::TraitItemMethod
Method(attrs, ident, asyncness, inputs, output) ==
    [attrs |-> attrs, ident |-> ident, asyncness |-> asyncness,
     inputs |-> inputs, output |-> output]

\* TraitMethodMeta::from_attrs
TraitMethodMetaFromAttrs(attrs) ==
    IF attrs.malformed
    THEN [ok |-> FALSE, err |-> "malformed", meta |-> attrs]
    ELSE [ok |-> TRUE, err |-> "", meta |-> attrs]

\* ImplementerDowncastDefinition
DowncastExternal(path) ==
    [kind |-> "External", path |-> path, name |-> <<>>, with_context |-> FALSE]
DowncastMethod(name, with_context) ==
    [kind |-> "Method", path |-> "", name |-> name,
     with_context |-> with_context]

ImplementerDefinition(ty, downcast, context_ty, span) ==
    [ty |-> ty, downcast |-> downcast, context_ty |-> context_ty,
     span |-> span]

InterfaceFieldDefinition(name, ty, method, arguments, is_async) ==
    [name |-> name, ty |-> ty, method |-> method, arguments |-> arguments,
     is_async |-> is_async]

\* parse::downcaster::output_type: the `T` of `Option<&T>`, or the span
DowncasterOutputType(output) ==
    IF output.kind = "Type" /\ output.option_ref
    THEN [ok |-> TRUE, ty |-> output.path]
    ELSE [ok |-> FALSE, ty |-> ""]

\* parse::downcaster::context_ty: `&self` alone, or `&self` and `&Context`
DowncasterContextTy(inputs) ==
    LET self_ok == /\ Len(inputs) >= 1
                   /\ inputs[1].kind = "Receiver"
                   /\ inputs[1].reference
                   /\ ~inputs[1].mutability
    IN IF self_ok /\ Len(inputs) = 1 THEN [ok |-> TRUE, ty |-> None]
       ELSE IF /\ self_ok
               /\ Len(inputs) = 2
               /\ inputs[2].kind = "Typed"
               /\ inputs[2].ty.reference
       THEN [ok |-> TRUE, ty |-> Some(Unreferenced(inputs[2].ty))]
       ELSE [ok |-> FALSE, ty |-> None]

\* TraitMethod::parse_downcast. `at` is the method's location.
parse_downcast(method, at) ==
    LET ty == DowncasterOutputType(method.output)
        context_ty == DowncasterContextTy(method.inputs)
    IN IF ~ty.ok
       THEN Ret(None, <<Diag("downcast_output", <<at, "output">>, <<>>)>>)
       ELSE IF ~context_ty.ok
       THEN Ret(None, <<Diag("downcast_inputs", <<at, "sig">>, <<>>)>>)
       ELSE IF method.asyncness
       THEN Ret(None, <<Diag("downcast_async", <<at, "async">>, <<>>)>>)
       ELSE Ret(Some(ImplementerDefinition(
                         ty.ty,
                         Some(DowncastMethod(method.ident,
                                             IsSome(context_ty.ty))),
                         context_ty.ty,
                         <<at, "sig">>)),
                <<>>)

\* The filter_map over the arguments after the receiver (attr.rs 511-516).
RECURSIVE ParseArguments(_, _, _)
ParseArguments(inputs, k, at) ==
    IF k > Len(inputs) THEN Ret(<<>>, <<>>)
    ELSE LET one == IF inputs[k].kind = "Receiver" THEN Ret(None, <<>>)
                    ELSE parse_field_argument(inputs[k], at \o <<"arg", k>>)
             more == ParseArguments(inputs, k + 1, at)
         IN Ret(one.value \o more.value, one.diags \o more.diags)

\* A receiver check that lets every `self` receiver through.
ReceiverCheckAnySelf(inputs, at) ==
    IF Len(inputs) = 0
    THEN <<err_no_method_receiver(CallSite)>>
    ELSE IF inputs[1].kind = "Receiver" THEN <<>>
    ELSE <<err_no_method_receiver(<<at \o <<"arg", 1>>, "arg">>)>>

\* The receiver check of parse_field (attr.rs 492-510): the diagnostics it
\* emits; none when the first input is `&self`.
ReceiverCheck(inputs, at) ==
    IF Len(inputs) = 0
    THEN <<err_no_method_receiver(CallSite)>>
    ELSE IF inputs[1].kind = "Receiver"
    THEN IF ~inputs[1].reference \/ inputs[1].mutability
         THEN <<err_invalid_method_receiver(<<at \o <<"arg", 1>>, "arg">>)>>
         ELSE <<>>
    ELSE IF inputs[1].pat.kind = "Ident" /\ inputs[1].pat.ident # S_self
    THEN <<err_invalid_method_receiver(<<at \o <<"arg", 1>>, "arg">>)>>
    ELSE <<err_no_method_receiver(<<at \o <<"arg", 1>>, "arg">>)>>

\* The field's name (attr.rs 476-480).
FieldName(method, m) ==
    IF IsSome(m.name) THEN Unwrap(m.name) ELSE to_camel_case(method.ident)

\* The field's type (attr.rs 519-523): the unit type when the method declares
\* no result, else the result type without its enclosing parentheses; its
\* lifetimes anonymized.
FieldTy(output) ==
    anonymize_lifetimes(IF output.kind = "Default" THEN UnitType
                        ELSE unparenthesized(output))

\* TraitMethod::parse_field
parse_field(method, m, at) ==
    LET name == FieldName(method, m)
        ty == FieldTy(method.output)
        rcv == ReceiverCheck(method.inputs, at)
        arguments == ParseArguments(method.inputs, 2, at)
    IN IF StartsWithDunder(name)
       THEN Ret(None,
                <<NoDoubleUnderscore(
                      <<at, IF IsSome(m.name) THEN "name" ELSE "ident">>)>>)
       ELSE IF rcv # <<>> THEN Ret(None, rcv)
       ELSE Ret(Some(InterfaceFieldDefinition(name, ty,
                                              method.ident, arguments.value,
                                              method.asyncness)),
                arguments.diags)

\* TraitMethod::parse: kind is "None", "Field" or "Downcast".
Parsed(kind, r) == [kind |-> IF IsSome(r.value) THEN kind ELSE "None",
                    value |-> r.value, diags |-> r.diags]

\* A parse that drops a method with malformed directives without reporting.
TraitMethodParseSilent(method, at) ==
    LET r == TraitMethodMetaFromAttrs(method.attrs)
    IN IF ~r.ok THEN Parsed("None", Ret(None, <<>>))
       ELSE IF r.meta.ignore THEN Parsed("None", Ret(None, <<>>))
       ELSE IF r.meta.downcast
       THEN Parsed("Downcast", parse_downcast(method, at))
       ELSE Parsed("Field", parse_field(method, r.meta, at))

\* attr.rs 405-427
TraitMethodParse(method, at) ==
    LET r == TraitMethodMetaFromAttrs(method.attrs)
    IN IF ~r.ok
       THEN Parsed("None", Ret(None, <<AttrError(<<at, "attrs">>, r.err)>>))
       ELSE IF r.meta.ignore THEN Parsed("None", Ret(None, <<>>))
       ELSE IF r.meta.downcast
       THEN Parsed("Downcast", parse_downcast(method, at))
       ELSE Parsed("Field", parse_field(method, r.meta, at))

(***************************************************************************)
(* expand_on_trait                                                         *)
(***************************************************************************)
\* InterfaceMeta, as from_attrs returns it (`ok` is FALSE for its Err).
InterfaceMeta(ok, is_internal, trait_ident, impls, external_downcasts) ==
    [ok |-> ok, is_internal |-> is_internal, name |-> None,
     trait_ident |-> trait_ident, implementers |-> impls,
     external_downcasts |-> external_downcasts]

\* attr.rs 61-65
InterfaceName(m) ==
    IF IsSome(m.name) THEN Unwrap(m.name) ELSE m.trait_ident

\* attr.rs 66-73
InterfaceNameCheck(m) ==
    IF ~m.is_internal /\ StartsWithDunder(InterfaceName(m))
    THEN <<NoDoubleUnderscore(IF IsSome(m.name)
                              THEN <<<<"meta">>, "name">>
                              ELSE <<<<"trait">>, "ident">>)>>
    ELSE <<>>

\* attr.rs 75-87
SeedImplementers(m) ==
    [k \in 1..Len(m.implementers) |->
        ImplementerDefinition(m.implementers[k], None, None,
                              <<"implementer", k>>)]

\* A find that takes the first implementer whatever its type.
FindImplementerFirst(reg, ty) == IF Len(reg) > 0 THEN 1 ELSE 0

\* implementers.iter_mut().find(|i| i.ty == ty): its index, 0 when absent
FindImplementer(reg, ty) ==
    IF \E k \in 1..Len(reg) : reg[k].ty = ty
    THEN CHOOSE k \in 1..Len(reg) :
             reg[k].ty = ty /\ \A j \in 1..(k - 1) : reg[j].ty # ty
    ELSE 0

\* proc_macro_error::abort_if_dirty: whether the run aborts here
AbortIfDirtyNever(ds) == FALSE

AbortIfDirty(ds) == ds # <<>>

\* err_duplicate_downcast: the diagnostic, or the panic of `unreachable!()`
\* when the binding already attached is not an external function.
err_duplicate_downcast(method, external, impler_ty, at) ==
    IF external.kind = "External"
    THEN [panic |-> FALSE,
          diags |-> <<Diag("duplicate_downcast", <<at, "method">>,
                           <<method.ident, external.path, impler_ty>>)>>]
    ELSE [panic |-> TRUE, diags |-> <<>>]

InterfaceDefinition(name, fs, impls) ==
    [name |-> name, fields |-> fs, implementers |-> impls]

\* attr.rs 57-87: from_attrs, the name check, the registry seeded.
Start ==
    /\ pc = "start"
    /\ IF ~meta.ok
       THEN /\ pc' = "error"
            /\ UNCHANGED <<diags, implementers>>
       ELSE /\ pc' = "external"
            /\ diags' = InterfaceNameCheck(meta)
            /\ implementers' = SeedImplementers(meta)
    /\ cursor' = 1
    /\ UNCHANGED <<meta, items, fields, generated, fn_in, fn_out>>

\* attr.rs 88-97: one turn of the loop over meta.external_downcasts.
ExternalDowncast ==
    /\ pc = "external"
    /\ cursor <= Len(meta.external_downcasts)
    /\ LET ty == meta.external_downcasts[cursor][1]
           path == meta.external_downcasts[cursor][2]
           k == FindImplementer(implementers, ty)
       IN IF k # 0
          THEN /\ implementers' =
                     [implementers EXCEPT
                         ![k].downcast = Some(DowncastExternal(path))]
               /\ UNCHANGED diags
          ELSE /\ diags' = Append(diags,
                               err_only_implementer_downcast(
                                   <<<<"external", cursor>>, "binding">>))
               /\ UNCHANGED implementers
    /\ cursor' = cursor + 1
    /\ UNCHANGED <<pc, meta, items, fields, generated, fn_in, fn_out>>

\* attr.rs 99-101: abort_if_dirty after the external bindings.
AfterExternal ==
    /\ pc = "external"
    /\ cursor > Len(meta.external_downcasts)
    /\ pc' = IF AbortIfDirty(diags) THEN "aborted" ELSE "methods"
    /\ cursor' = 1
    /\ UNCHANGED <<meta, items, implementers, fields, diags, generated,
                   fn_in, fn_out>>

\* attr.rs 102-122: one turn of the loop over the trait's methods.
MethodItem ==
    /\ pc = "methods"
    /\ cursor <= Len(items)
    /\ LET m == items[cursor]
           at == <<"method", cursor>>
           p == TraitMethodParse(m, at)
           d == Unwrap(p.value)
           k == FindImplementer(implementers, d.ty)
           dup == err_duplicate_downcast(
                      m, Unwrap(implementers[k].downcast),
                      implementers[k].ty, at)
       IN CASE p.kind = "Field" ->
                 /\ fields' = Append(fields, Unwrap(p.value))
                 /\ diags' = diags \o p.diags
                 /\ pc' = pc
                 /\ UNCHANGED implementers
            [] p.kind = "Downcast" /\ k = 0 ->
                 /\ diags' = Append(diags \o p.diags,
                                    err_only_implementer_downcast(d.span))
                 /\ pc' = pc
                 /\ UNCHANGED <<implementers, fields>>
            [] p.kind = "Downcast" /\ k # 0
               /\ IsSome(implementers[k].downcast) ->
                 /\ diags' = diags \o p.diags \o dup.diags
                 /\ pc' = IF dup.panic THEN "panicked" ELSE pc
                 /\ UNCHANGED <<implementers, fields>>
            [] p.kind = "Downcast" /\ k # 0
               /\ ~IsSome(implementers[k].downcast) ->
                 /\ implementers' =
                       [implementers EXCEPT ![k].downcast = d.downcast,
                                            ![k].context_ty = d.context_ty]
                 /\ diags' = diags \o p.diags
                 /\ pc' = pc
                 /\ UNCHANGED fields
            [] OTHER ->
                 /\ diags' = diags \o p.diags
                 /\ pc' = pc
                 /\ UNCHANGED <<implementers, fields>>
    /\ cursor' = cursor + 1
    /\ UNCHANGED <<meta, items, generated, fn_in, fn_out>>

\* attr.rs 124: abort_if_dirty after the methods.
AfterMethods ==
    /\ pc = "methods"
    /\ cursor > Len(items)
    /\ pc' = IF AbortIfDirty(diags) THEN "aborted" ELSE "build"
    /\ UNCHANGED <<meta, items, cursor, implementers, fields, diags,
                   generated, fn_in, fn_out>>

\* attr.rs 126-313: the InterfaceDefinition and the generated code.
Build ==
    /\ pc = "build"
    /\ generated' = Some(InterfaceDefinition(InterfaceName(meta), fields,
                                             implementers))
    /\ pc' = "done"
    /\ UNCHANGED <<meta, items, cursor, implementers, fields, diags,
                   fn_in, fn_out>>

Next == Start \/ ExternalDowncast \/ AfterExternal \/ MethodItem
        \/ AfterMethods \/ Build

(***************************************************************************)
(* Inputs.                                                                 *)
(***************************************************************************)
S_Node == <<"N", "o", "d", "e">>
S___Node == <<"_", "_", "N", "o", "d", "e">>
S_as_h == <<"a", "s", "_", "h">>
S_as_d == <<"a", "s", "_", "d">>

ImplementerTypes == {"Human", "Droid"}

T_i32 == Type(FALSE, "i32")
T_ref_Ctx == Type(TRUE, "Ctx")

SelfRef == Receiver(TRUE, FALSE)
SelfRefMut == Receiver(TRUE, TRUE)
SelfOwned == Receiver(FALSE, FALSE)

\* Sequences over S of length at most n, without repetition when `distinct`.
SeqsUpTo(S, n) == UNION {[1..k -> S] : k \in 0..n}
Distinct(q) == \A a, b \in 1..Len(q) : a # b => q[a] # q[b]

\* Declared-implementer lists (a set of types, in its iteration order).
ImplementerLists ==
    {q \in SeqsUpTo(ImplementerTypes, Cardinality(ImplementerTypes)) :
        Distinct(q)}

\* External downcast bindings (a map from types to functions, in its
\* iteration order).
ExternalDowncastLists ==
    {[k \in 1..Len(q) |-> <<q[k], "as_" \o q[k]>>] : q \in ImplementerLists}

\* The meta of a declaration with a `name` directive.
InterfaceMetaNamed(name, m) == [m EXCEPT !.name = Some(name)]

\* An interface named `Node`, one named `__Node` that is or is not
\* internal, and one named `__Node` by a `name` directive.
MetaInputs ==
    {InterfaceMeta(TRUE, ni[2], ni[1], impls, ext) :
        ni \in {<<S_Node, FALSE>>, <<S___Node, FALSE>>, <<S___Node, TRUE>>},
        impls \in ImplementerLists, ext \in ExternalDowncastLists}
    \cup {InterfaceMetaNamed(S___Node,
                             InterfaceMeta(TRUE, FALSE, S_Node, impls, ext)) :
             impls \in ImplementerLists, ext \in ExternalDowncastLists}
    \cup {InterfaceMeta(FALSE, FALSE, S_Node, <<>>, <<>>)}

PlainAttrs == MethodAttrs(FALSE, FALSE, FALSE, None)
DowncastAttrs == MethodAttrs(FALSE, FALSE, TRUE, None)

DowncastMethodTo(ident, asyncness, ty) ==
    Method(DowncastAttrs, ident, asyncness, <<SelfRef>>, ReturnType(TRUE, ty))

\* The methods the runs of expand_on_trait are made of.
PipelineMethods ==
    { Method(MethodAttrs(FALSE, TRUE, FALSE, None), S_id, FALSE,
             <<SelfRefMut>>, ReturnDefault),
      Method(PlainAttrs, S_id, FALSE, <<SelfRef>>,
             ReturnTypeWritten(FALSE, "Foo<>", 1, <<"'a">>)),
      Method(PlainAttrs, S_my_id, FALSE,
             <<SelfRef, Typed(NoArgAttrs, PatOther, T_i32)>>,
             ReturnType(FALSE, "String")),
      Method(PlainAttrs, S_id, FALSE, <<SelfRefMut>>,
             ReturnType(FALSE, "String")),
      Method(PlainAttrs, S___id, FALSE, <<SelfRef>>,
             ReturnType(FALSE, "String")),
      Method(MethodAttrs(TRUE, FALSE, FALSE, None), S_my_id, FALSE, <<SelfRef>>,
             ReturnType(FALSE, "String")),
      DowncastMethodTo(S_as_h, FALSE, "Human"),
      DowncastMethodTo(S_as_d, FALSE, "Droid") }

Init ==
    /\ pc = "start"
    /\ meta \in MetaInputs
    /\ items \in SeqsUpTo(PipelineMethods, MaxMethods)
    /\ cursor = 1
    /\ implementers = <<>>
    /\ fields = <<>>
    /\ diags = <<>>
    /\ generated = None
    /\ fn_in = None
    /\ fn_out = None

Spec == Init /\ [][Next]_vars

(***************************************************************************)
(* parse_field_argument on its own: every combination of directives,       *)
(* pattern and type of one argument.                                       *)
(***************************************************************************)
ArgNames == {None, Some(S_id), Some(S___id)}

ArgPatterns ==
    {PatIdent(i) : i \in {S_context, S_ctx, S_executor, S_id, S_my_id,
                          S__id, S___id, S___my_id}}
    \cup {PatOther}

ArgInputs ==
    {Typed(ArgAttrs(mal, c, e, n, d, def), p, ty) :
        mal \in BOOLEAN, c \in BOOLEAN, e \in BOOLEAN, n \in ArgNames,
        d \in BOOLEAN, def \in BOOLEAN, p \in ArgPatterns,
        ty \in {T_i32, T_ref_Ctx}}

ArgAt == <<"method", 1, "arg", 2>>

InitArg ==
    /\ pc = "argument"
    /\ fn_in \in ArgInputs
    /\ fn_out = None
    /\ meta = InterfaceMeta(TRUE, FALSE, S_Node, <<>>, <<>>)
    /\ items = <<>>
    /\ cursor = 1
    /\ implementers = <<>>
    /\ fields = <<>>
    /\ diags = <<>>
    /\ generated = None

ApplyParseFieldArgument ==
    /\ pc = "argument"
    /\ fn_out' = Some(parse_field_argument(fn_in, ArgAt))
    /\ pc' = "returned"
    /\ UNCHANGED <<meta, items, cursor, implementers, fields, diags,
                   generated, fn_in>>

NextArg == ApplyParseFieldArgument

SpecArg == InitArg /\ [][NextArg]_vars

(***************************************************************************)
(* TraitMethod::parse on its own: one method of a declaration that is or   *)
(* is not internal.                                                        *)
(***************************************************************************)
MethodAttrInputs ==
    {MethodAttrs(mal, ign, down, n) :
        mal \in BOOLEAN, ign \in BOOLEAN, down \in BOOLEAN,
        n \in {None, Some(S_id), Some(S___id)}}

FirstInputs ==
    {SelfRef, SelfRefMut, SelfOwned,
     Typed(NoArgAttrs, PatIdent(S_self), Type(FALSE, "Box<Self>")),
     Typed(NoArgAttrs, PatIdent(S_id), T_i32),
     Typed(NoArgAttrs, PatOther, T_i32)}

LaterInputs ==
    {Typed(NoArgAttrs, PatIdent(S_my_id), T_i32),
     Typed(NoArgAttrs, PatIdent(S_ctx), T_ref_Ctx),
     Typed(NoArgAttrs, PatIdent(S___id), T_i32),
     Typed(ArgAttrs(FALSE, FALSE, FALSE, Some(S___id), FALSE, FALSE),
           PatOther, T_i32)}

InputLists ==
    {<<>>} \cup {<<f>> \o q : f \in FirstInputs,
                              q \in SeqsUpTo(LaterInputs, MaxArgs)}

MethodInputs ==
    {Method(a, id, asy, ins, out) :
        a \in MethodAttrInputs, id \in {S_my_id, S___my_id},
        asy \in BOOLEAN, ins \in InputLists,
        out \in {ReturnDefault, ReturnType(FALSE, "String"),
                 ReturnType(TRUE, "Human"),
                 ReturnTypeWritten(FALSE, "&Foo<>", 1, <<"'a", "'b">>)}}

MethodAt == <<"method", 1>>

InitField ==
    /\ pc = "method"
    /\ fn_in \in MethodInputs
    /\ fn_out = None
    /\ meta \in {InterfaceMeta(TRUE, int, S_Node, <<>>, <<>>) :
                    int \in BOOLEAN}
    /\ items = <<>>
    /\ cursor = 1
    /\ implementers = <<>>
    /\ fields = <<>>
    /\ diags = <<>>
    /\ generated = None

ApplyTraitMethodParse ==
    /\ pc = "method"
    /\ fn_out' = Some(TraitMethodParse(fn_in, MethodAt))
    /\ pc' = "returned"
    /\ UNCHANGED <<meta, items, cursor, implementers, fields, diags,
                   generated, fn_in>>

NextField == ApplyTraitMethodParse

SpecField == InitField /\ [][NextField]_vars

(***************************************************************************)
(* Vocabulary of the properties.                                           *)
(***************************************************************************)
InRun == pc \in {"external", "methods", "aborted", "panicked", "build", "done"}
PastExternal == pc \in {"methods", "aborted", "panicked", "build", "done"}

\* The external binding / the method at position j has been examined.
ExternalExamined(j) ==
    /\ j \in 1..Len(meta.external_downcasts)
    /\ (pc = "external" /\ j < cursor) \/ PastExternal
MethodExamined(j) ==
    /\ j \in 1..Len(items)
    /\ PastExternal
    /\ j < cursor

\* The run is over; nothing before the methods loop recorded a diagnostic.
RunEnded == pc \in {"aborted", "panicked", "done"}
ExternalPhaseClean ==
    \A k \in 1..Len(diags) : diags[k].at[1][1] = "method"

Declared == {meta.implementers[k] : k \in 1..Len(meta.implementers)}
RegistryTypes == [k \in 1..Len(implementers) |-> implementers[k].ty]

Classified(j) == TraitMethodParse(items[j], <<"method", j>>)
IsDowncastTo(j, ty) ==
    Classified(j).kind = "Downcast" /\ Unwrap(Classified(j).value).ty = ty

DiagsOf(kind, at) ==
    {k \in 1..Len(diags) : diags[k].kind = kind /\ diags[k].at = at}
DiagsAtItem(item) ==
    {k \in 1..Len(diags) : diags[k].at[1] = item}

\* The method about to be examined asks for a binding on an implementer
\* that already has one.
SecondBindingAttempt ==
    /\ pc = "methods"
    /\ cursor <= Len(items)
    /\ Classified(cursor).kind = "Downcast"
    /\ LET k == FindImplementer(implementers,
                                Unwrap(Classified(cursor).value).ty)
       IN k # 0 /\ IsSome(implementers[k].downcast)

(***************************************************************************)
(* C1. Every attempt to attach a second downcast binding to an implementer *)
(* that already has one, external function or earlier downcast method,     *)
(* records one duplicate-downcast diagnostic, leaves the registry as it    *)
(* was and lets the run go on.                                             *)
(***************************************************************************)
C1_SecondBindingDiagnosed ==
    [][SecondBindingAttempt =>
          /\ Len(diags') = Len(diags) + 1
          /\ diags'[Len(diags')].kind = "duplicate_downcast"
          /\ implementers' = implementers
          /\ pc' = "methods"]_vars

(***************************************************************************)
(* C2 as stated: the registry always lists exactly the declared            *)
(* implementers, and when the run has ended every external binding and     *)
(* every downcast method whose target is not declared has exactly one      *)
(* non-implementer diagnostic at its own location, the run having aborted  *)
(* without an InterfaceDefinition.                                         *)
(***************************************************************************)
C2_UndeclaredAlwaysDiagnosed ==
    /\ InRun => RegistryTypes = meta.implementers
    /\ RunEnded
       => /\ \A j \in 1..Len(meta.external_downcasts) :
                meta.external_downcasts[j][1] \notin Declared
                => Cardinality(DiagsOf("only_implementer_downcast",
                                       <<<<"external", j>>, "binding">>)) = 1
          /\ \A j \in 1..Len(items) :
                /\ Classified(j).kind = "Downcast"
                /\ Unwrap(Classified(j).value).ty \notin Declared
                => /\ Cardinality(DiagsOf("only_implementer_downcast",
                                          <<<<"method", j>>, "sig">>)) = 1
                   /\ generated = None
                   /\ pc = "aborted"

(***************************************************************************)
(* C2 amended: the registry always lists exactly the declared              *)
(* implementers.  Every external binding to an undeclared type has exactly *)
(* one non-implementer diagnostic at its location once examined, and all   *)
(* are examined before the run ends.  A downcast method to an undeclared   *)
(* type has exactly one such diagnostic at its location once the run has   *)
(* examined it and none before; a run that aborts has examined every       *)
(* method when the trait-name check and the external bindings recorded     *)
(* nothing, and no method otherwise; a run that panics has examined the    *)
(* methods up to the one it panicked on.  A declaration with such a        *)
(* binding or method never yields an InterfaceDefinition.                  *)
(***************************************************************************)
C2_OnlyDeclaredImplementers ==
    /\ InRun => RegistryTypes = meta.implementers
    /\ \A j \in 1..Len(meta.external_downcasts) :
          meta.external_downcasts[j][1] \notin Declared
          => /\ Cardinality(DiagsOf("only_implementer_downcast",
                                    <<<<"external", j>>, "binding">>))
                = IF ExternalExamined(j) THEN 1 ELSE 0
             /\ RunEnded => ExternalExamined(j) /\ pc = "aborted"
    /\ \A j \in 1..Len(items) :
          /\ Classified(j).kind = "Downcast"
          /\ Unwrap(Classified(j).value).ty \notin Declared
          => Cardinality(DiagsOf("only_implementer_downcast",
                                 <<<<"method", j>>, "sig">>))
             = IF MethodExamined(j) THEN 1 ELSE 0
    /\ pc = "aborted"
       => \A j \in 1..Len(items) : MethodExamined(j) <=> ExternalPhaseClean
    /\ pc = "panicked"
       => /\ ExternalPhaseClean
          /\ cursor \in 2..(Len(items) + 1)
          /\ Classified(cursor - 1).kind = "Downcast"
          /\ Unwrap(Classified(cursor - 1).value).ty \in Declared
    /\ \/ \E j \in 1..Len(meta.external_downcasts) :
             meta.external_downcasts[j][1] \notin Declared
       \/ \E j \in 1..Len(items) :
             /\ Classified(j).kind = "Downcast"
             /\ Unwrap(Classified(j).value).ty \notin Declared
       => generated = None /\ pc \notin {"build", "done"}

\* A run with a declared implementer that examined a downcast method to an
\* undeclared type, and aborted after the methods.
C2_Witness ==
    /\ pc = "aborted"
    /\ Len(implementers) > 0
    /\ \E j \in 1..Len(items) :
          /\ MethodExamined(j)
          /\ Classified(j).kind = "Downcast"
          /\ Unwrap(Classified(j).value).ty \notin Declared

(***************************************************************************)
(* Vocabulary of the properties about TraitMethod::parse (SpecField).      *)
(***************************************************************************)
HasReservedPrefix(s) == Len(s) >= 2 /\ SubSeq(s, 1, 2) = <<"_", "_">>

Returned == pc = "returned"
Out == Unwrap(fn_out)
OutDiags(kind, at) ==
    {k \in 1..Len(Out.diags) : Out.diags[k].kind = kind /\ Out.diags[k].at = at}

\* The method is handed to parse_field: its directives parse, and it is
\* neither ignored nor a downcast.
FieldCandidate(method) ==
    /\ ~method.attrs.malformed
    /\ ~method.attrs.ignore
    /\ ~method.attrs.downcast

DeclaredFieldName(method) ==
    IF IsSome(method.attrs.name) THEN Unwrap(method.attrs.name)
    ELSE to_camel_case(method.ident)

ValidReceiver(method) ==
    /\ Len(method.inputs) >= 1
    /\ method.inputs[1].kind = "Receiver"
    /\ method.inputs[1].reference
    /\ ~method.inputs[1].mutability

\* The argument is a regular one: its directives parse, it has no context
\* or executor directive, is not named by convention, and has a name.
RegularCandidate(arg) ==
    /\ arg.kind = "Typed"
    /\ ArgumentMetaFromAttrs(arg.attrs).ok
    /\ ~arg.attrs.context
    /\ ~arg.attrs.executor
    /\ ~(arg.pat.kind = "Ident"
         /\ arg.pat.ident \in {S_context, S_ctx, S_executor})
    /\ IsSome(arg.attrs.name) \/ arg.pat.kind = "Ident"

DeclaredArgName(arg) ==
    IF IsSome(arg.attrs.name) THEN Unwrap(arg.attrs.name)
    ELSE to_camel_case(arg.pat.ident)

\* The field whose method has a `__` name was dropped with the diagnostic.
FieldNameRejected ==
    /\ Out.kind = "None"
    /\ Cardinality(OutDiags("no_double_underscore",
                            <<MethodAt, IF IsSome(fn_in.attrs.name)
                                        THEN "name" ELSE "ident">>)) = 1

\* Argument k, whose name has the `__` prefix, was dropped with the
\* diagnostic.
ArgNameRejected(k) ==
    /\ Out.kind = "Field"
    /\ \A a \in 1..Len(Out.value[1].arguments) :
          Out.value[1].arguments[a].kind = "Regular"
          => ~HasReservedPrefix(Out.value[1].arguments[a].name)
    /\ Cardinality(OutDiags("no_double_underscore",
                            <<MethodAt \o <<"arg", k>>,
                              IF IsSome(fn_in.inputs[k].attrs.name)
                              THEN "name" ELSE "pat">>)) = 1

(***************************************************************************)
(* C3 as stated: a field or regular-argument name with the `__` prefix is  *)
(* rejected when the declaration is not internal and accepted, without a   *)
(* diagnostic, when it is.                                                 *)
(***************************************************************************)
C3_ReservedUnlessInternal ==
    Returned /\ FieldCandidate(fn_in)
    /\ HasReservedPrefix(DeclaredFieldName(fn_in))
    => IF meta.is_internal
       THEN /\ \A k \in 1..Len(Out.diags) :
                  Out.diags[k].kind # "no_double_underscore"
            /\ ValidReceiver(fn_in) => Out.kind = "Field"
       ELSE FieldNameRejected

(***************************************************************************)
(* C3 amended: a field or regular-argument name, explicit or derived by    *)
(* case conversion, with the `__` prefix is rejected with the reserved-    *)
(* name diagnostic and the item dropped, whether or not the declaration is *)
(* internal; no such diagnostic is given to a name without the prefix.     *)
(***************************************************************************)
C3_ReservedAlwaysRejected ==
    Returned /\ FieldCandidate(fn_in)
    => /\ HasReservedPrefix(DeclaredFieldName(fn_in)) => FieldNameRejected
       /\ ~HasReservedPrefix(DeclaredFieldName(fn_in))
          => \A k \in 1..Len(Out.diags) :
                Out.diags[k].kind = "no_double_underscore"
                => Out.diags[k].at[1] # MethodAt
       /\ ~HasReservedPrefix(DeclaredFieldName(fn_in)) /\ ValidReceiver(fn_in)
          => \A k \in 2..Len(fn_in.inputs) :
                RegularCandidate(fn_in.inputs[k])
                => (HasReservedPrefix(DeclaredArgName(fn_in.inputs[k]))
                    <=> ArgNameRejected(k))

\* An internal declaration's method whose derived name keeps the `__`
\* prefix, dropped by parse.
C3_Witness ==
    /\ Returned
    /\ meta.is_internal
    /\ FieldCandidate(fn_in)
    /\ ~IsSome(fn_in.attrs.name)
    /\ HasReservedPrefix(to_camel_case(fn_in.ident))
    /\ ValidReceiver(fn_in)
    /\ Out.kind = "None"

(***************************************************************************)
(* Vocabulary of the properties about the methods loop.                    *)
(***************************************************************************)
LoopFinished ==
    \/ pc = "methods" /\ cursor > Len(items)
    \/ pc \in {"build", "done"}
    \/ pc = "aborted" /\ cursor > Len(items)

Idents(ms) == [k \in 1..Len(ms) |-> ms[k].ident]
FieldMethods == [k \in 1..Len(fields) |-> fields[k].method]

\* Not ignored, not a downcast, and the receiver is `&self`.
HasFieldShape(m) ==
    ~m.attrs.ignore /\ ~m.attrs.downcast /\ ValidReceiver(m)

\* What parse_field accepts: the directives parse as well, and the name
\* does not have the reserved prefix.
IsAcceptedField(m) ==
    /\ FieldCandidate(m)
    /\ ValidReceiver(m)
    /\ ~HasReservedPrefix(DeclaredFieldName(m))

(***************************************************************************)
(* C4 as stated: when the methods loop has finished, the fields are the    *)
(* declared methods that are not ignored, not downcasts and have a `&self` *)
(* receiver, in declaration order.                                         *)
(***************************************************************************)
C4_FieldsAreShapedMethods ==
    LoopFinished => FieldMethods = Idents(SelectSeq(items, HasFieldShape))

(***************************************************************************)
(* C4 amended: at every point of the methods loop, and so when it has      *)
(* finished, the fields are the examined methods whose directives parse,   *)
(* that are not ignored, not downcasts, have a `&self` receiver and a name *)
(* without the `__` prefix, in declaration order.                          *)
(***************************************************************************)
C4_FieldsAreAcceptedMethods ==
    /\ PastExternal
       => FieldMethods =
             Idents(SelectSeq(SubSeq(items, 1, cursor - 1), IsAcceptedField))
    /\ LoopFinished
       => Len(fields) = Len(SelectSeq(items, IsAcceptedField))

\* The loop finished with a field collected and a `&self` method left out.
C4_Witness ==
    /\ LoopFinished
    /\ Len(fields) >= 1
    /\ Len(fields) < Len(SelectSeq(items, HasFieldShape))

(***************************************************************************)
(* C5. A run that recorded a diagnostic before or during the external-     *)
(* binding phase never enters the methods loop, a run that recorded one    *)
(* during the methods loop never reaches the construction of the           *)
(* InterfaceDefinition, and an InterfaceDefinition comes only from a run   *)
(* without diagnostics; a run aborts only because of a diagnostic.         *)
(***************************************************************************)
C5_NoModelFromDirtyRun ==
    /\ pc = "methods" => \A k \in 1..Len(diags) : diags[k].at[1][1] = "method"
    /\ pc \in {"build", "done"} => diags = <<>>
    /\ IsSome(generated) => diags = <<>> /\ pc = "done"
    /\ pc = "aborted" => diags # <<>>

\* A run that recorded a diagnostic in the methods loop and aborted.
C5_Witness ==
    /\ pc = "aborted"
    /\ \E k \in 1..Len(diags) : diags[k].at[1][1] = "method"

(***************************************************************************)
(* C6. When a declared implementer has an external downcast binding and    *)
(* the trait has a downcast method for it, then wherever that method       *)
(* stands among the methods, a run that got past the external bindings     *)
(* ends aborted, with exactly one duplicate-downcast diagnostic for the    *)
(* method, naming the method, the external function and the implementer,   *)
(* and with the external binding still on the implementer.                 *)
(***************************************************************************)

HasExternalBinding(ty) ==
    \E e \in 1..Len(meta.external_downcasts) :
        meta.external_downcasts[e][1] = ty
ExternalPathFor(ty) ==
    meta.external_downcasts[
        CHOOSE e \in 1..Len(meta.external_downcasts) :
            meta.external_downcasts[e][1] = ty][2]

\* Method j is a well-formed downcast to a declared implementer that has an
\* external binding.
ConflictsWithExternal(j) ==
    /\ Classified(j).kind = "Downcast"
    /\ Unwrap(Classified(j).value).ty \in Declared
    /\ HasExternalBinding(Unwrap(Classified(j).value).ty)

C6_ConflictAlwaysRecorded ==
    RunEnded /\ ExternalPhaseClean
    => \A j \in 1..Len(items) :
          ConflictsWithExternal(j)
          => LET ty == Unwrap(Classified(j).value).ty
                 at == <<<<"method", j>>, "method">>
             IN /\ pc = "aborted"
                /\ Cardinality(DiagsOf("duplicate_downcast", at)) = 1
                /\ \A k \in DiagsOf("duplicate_downcast", at) :
                      diags[k].about =
                          <<items[j].ident, ExternalPathFor(ty), ty>>
                /\ \E r \in 1..Len(implementers) :
                      /\ implementers[r].ty = ty
                      /\ implementers[r].downcast =
                            Some(DowncastExternal(ExternalPathFor(ty)))

(***************************************************************************)
(* Vocabulary of the properties about parse_field_argument (SpecArg).      *)
(***************************************************************************)
DirectiveFree(arg) == arg.attrs = NoArgAttrs

NamedByConvention(arg) ==
    arg.pat.kind = "Ident" /\ arg.pat.ident \in {S_context, S_ctx, S_executor}

HasRegularDirective(arg) ==
    IsSome(arg.attrs.name) \/ arg.attrs.description \/ arg.attrs.default

ConventionOutcome ==
    /\ fn_in.pat.ident \in {S_context, S_ctx}
       => /\ Out.value = Some(ArgContext(Type(FALSE, fn_in.ty.path)))
          /\ Out.diags = <<>>
    /\ fn_in.pat.ident = S_executor
       => Out.value = Some(ArgExecutor) /\ Out.diags = <<>>

(***************************************************************************)
(* C7 as stated: a directive-free parameter named `context` or `ctx` is    *)
(* Context, one named `executor` is Executor, neither is Regular, and      *)
(* every other directive-free single-identifier parameter is Regular.      *)
(***************************************************************************)
C7_ConventionElseRegular ==
    Returned /\ DirectiveFree(fn_in) /\ fn_in.pat.kind = "Ident"
    => /\ ConventionOutcome
       /\ ~NamedByConvention(fn_in)
          => IsSome(Out.value) /\ Out.value[1].kind = "Regular"

(***************************************************************************)
(* C7 amended: as stated, except that another directive-free single-       *)
(* identifier parameter is Regular, under its case-converted name, only    *)
(* when that name does not begin with `__`; when it does, the parameter is *)
(* dropped with the reserved-name diagnostic.                              *)
(***************************************************************************)
C7_ConventionElseRegularOrReserved ==
    Returned /\ DirectiveFree(fn_in) /\ fn_in.pat.kind = "Ident"
    => /\ ConventionOutcome
       /\ ~NamedByConvention(fn_in)
          => IF HasReservedPrefix(to_camel_case(fn_in.pat.ident))
             THEN /\ Out.value = None
                  /\ Out.diags = <<NoDoubleUnderscore(<<ArgAt, "pat">>)>>
             ELSE /\ Out.value =
                        Some(ArgRegular(to_camel_case(fn_in.pat.ident),
                                        fn_in.ty, FALSE, FALSE))
                  /\ Out.diags = <<>>

\* A directive-free `ctx: &Ctx` classified as Context of type `Ctx`.
C7_Witness ==
    /\ Returned
    /\ DirectiveFree(fn_in)
    /\ fn_in.pat = PatIdent(S_ctx)
    /\ fn_in.ty = T_ref_Ctx
    /\ IsSome(Out.value)
    /\ Out.value[1].kind = "Context"
    /\ Out.value[1].ty = Type(FALSE, "Ctx")

(***************************************************************************)
(* C8. A field method whose receiver is not `&self` yields no field and    *)
(* exactly one diagnostic: invalid-receiver for `&mut self`, `self` and    *)
(* the typed `self: T`, missing-receiver for an empty parameter list and   *)
(* for a first parameter that is an ordinary typed parameter.              *)
(***************************************************************************)
ExpectedReceiverDiag(method) ==
    IF Len(method.inputs) = 0 THEN "no_method_receiver"
    ELSE IF method.inputs[1].kind = "Receiver" THEN "invalid_method_receiver"
    ELSE IF method.inputs[1].pat = PatIdent(S_self)
    THEN "invalid_method_receiver"
    ELSE "no_method_receiver"

C8_ReceiverDiagnostics ==
    /\ Returned
    /\ FieldCandidate(fn_in)
    /\ ~HasReservedPrefix(DeclaredFieldName(fn_in))
    /\ ~ValidReceiver(fn_in)
    => /\ Out.kind = "None"
       /\ Len(Out.diags) = 1
       /\ Out.diags[1].kind = ExpectedReceiverDiag(fn_in)

(***************************************************************************)
(* C9. A parameter that is Context or Executor, by directive or by its     *)
(* name, and also carries `name`, `description` or `default`, is dropped   *)
(* with one diagnostic about the disallowed combination; it is never       *)
(* classified.                                                             *)
(***************************************************************************)
C9_RoleExcludesRegularDirectives ==
    /\ Returned
    /\ ~fn_in.attrs.malformed
    /\ fn_in.attrs.context \/ fn_in.attrs.executor \/ NamedByConvention(fn_in)
    /\ HasRegularDirective(fn_in)
    => /\ Out.value = None
       /\ Len(Out.diags) = 1
       /\ \/ Out.diags[1].kind = "disallowed_attr"
          \/ /\ Out.diags[1].kind = "attr_error"
             /\ Out.diags[1].about = <<"disallowed_combination">>

\* `ctx` with a `name` directive and no role directive, dropped with the
\* diagnostic that names the `name` directive.
C9_Witness ==
    /\ Returned
    /\ ~fn_in.attrs.malformed
    /\ ~fn_in.attrs.context
    /\ ~fn_in.attrs.executor
    /\ fn_in.pat = PatIdent(S_ctx)
    /\ IsSome(fn_in.attrs.name)
    /\ Out.value = None
    /\ Out.diags = <<err_disallowed_attr(<<ArgAt, "name">>, "name")>>

(***************************************************************************)
(* Vocabulary of the properties about what a run reports.                  *)
(***************************************************************************)
\* Some diagnostic is located in method j (its attributes, name, receiver,
\* signature or one of its arguments).
MethodReported(j) ==
    \E k \in 1..Len(diags) :
        diags[k].at[1][1] = "method" /\ diags[k].at[1][2] = j

ExternalReported(j) ==
    DiagsOf("only_implementer_downcast",
            <<<<"external", j>>, "binding">>) # {}

InvalidArgument(arg) ==
    arg.kind = "Typed" /\ parse_field_argument(arg, <<>>).diags # <<>>

\* The method, taken by itself, is invalid.
InvalidMethod(m) ==
    \/ m.attrs.malformed
    \/ /\ FieldCandidate(m)
       /\ \/ HasReservedPrefix(DeclaredFieldName(m))
          \/ ~ValidReceiver(m)
          \/ \E k \in 2..Len(m.inputs) : InvalidArgument(m.inputs[k])
    \/ /\ ~m.attrs.malformed /\ ~m.attrs.ignore /\ m.attrs.downcast
       /\ parse_downcast(m, <<>>).diags # <<>>

\* Method j is a well-formed downcast that the registry cannot take: to an
\* undeclared type, or to an implementer bound to an external function.
ResolverConflict(j) ==
    /\ ~items[j].attrs.malformed
    /\ ~items[j].attrs.ignore
    /\ items[j].attrs.downcast
    /\ parse_downcast(items[j], <<>>).diags = <<>>
    /\ LET ty == Unwrap(parse_downcast(items[j], <<>>).value).ty
       IN ty \notin Declared \/ HasExternalBinding(ty)

ProblemMethod(j) == InvalidMethod(items[j]) \/ ResolverConflict(j)

\* Every invalid argument of every method that yields a field has a
\* diagnostic of its own.
InvalidArgumentsReported ==
    \A j \in 1..Len(items) :
        IsAcceptedField(items[j])
        => \A a \in 2..Len(items[j].inputs) :
              InvalidArgument(items[j].inputs[a])
              => \E k \in 1..Len(diags) :
                    diags[k].at[1] = <<"method", j, "arg", a>>

InvalidExternalsReported ==
    \A j \in 1..Len(meta.external_downcasts) :
        meta.external_downcasts[j][1] \notin Declared => ExternalReported(j)

(***************************************************************************)
(* C10 as stated: when the run aborts, every invalid method, every invalid *)
(* argument's method, every invalid external binding and every resolver    *)
(* conflict of the trait has been reported.                                *)
(***************************************************************************)
C10_EveryProblemReported ==
    pc = "aborted"
    => /\ InvalidExternalsReported
       /\ \A j \in 1..Len(items) : ProblemMethod(j) => MethodReported(j)
       /\ InvalidArgumentsReported

(***************************************************************************)
(* C10 amended: diagnostics accumulate within a phase.  A run that aborts  *)
(* has reported every invalid external binding; if the trait-name check    *)
(* or an external binding was reported, it aborted before any method was   *)
(* examined and reports no method; otherwise it examined every method and  *)
(* has reported every invalid method, every invalid argument of a method   *)
(* that is otherwise a field, and every resolver conflict.                 *)
(***************************************************************************)
C10_ProblemsReportedPerPhase ==
    pc = "aborted"
    => /\ InvalidExternalsReported
       /\ IF ExternalPhaseClean
          THEN /\ cursor = Len(items) + 1
               /\ \A j \in 1..Len(items) :
                     ProblemMethod(j) => MethodReported(j)
               /\ InvalidArgumentsReported
          ELSE /\ cursor = 1
               /\ \A j \in 1..Len(items) : ~MethodReported(j)

\* A run that aborted after the methods with two invalid methods and a
\* resolver conflict, each reported.
C10_Witness ==
    /\ pc = "aborted"
    /\ ExternalPhaseClean
    /\ \E i, j, c \in 1..Len(items) :
          /\ i < j
          /\ InvalidMethod(items[i]) /\ InvalidMethod(items[j])
          /\ ResolverConflict(c)
          /\ MethodReported(i) /\ MethodReported(j) /\ MethodReported(c)

(***************************************************************************)
(* expand_on_trait after the methods loop (attr.rs 126-313) and            *)
(* expand_on_impl (attr.rs 317-394).                                       *)
(*                                                                         *)
(* The declaration-level options and the generics of the declaration are   *)
(* carried in `meta`; the generated output is a record of the rewritten    *)
(* declaration, the value type and the InterfaceDefinition.                *)
(***************************************************************************)
MaxBuildMethods == 2

\* syn::GenericParam: a type, lifetime or const parameter.
GenericParam(kind, ident, default) ==
    [kind |-> kind, ident |-> ident, default |-> default]
TypeParam(ident) == GenericParam("Type", ident, None)

\* ScalarValueType
ExplicitGeneric(ident) == [kind |-> "ExplicitGeneric", ty |-> ident]
Concrete(ty) == [kind |-> "Concrete", ty |-> ty]
ImplicitGeneric == [kind |-> "ImplicitGeneric", ty |-> ""]

is_explicit_generic(s) == s.kind = "ExplicitGeneric"
is_implicit_generic(s) == s.kind = "ImplicitGeneric"
is_generic(s) == s.kind \in {"ExplicitGeneric", "ImplicitGeneric"}
\* ScalarValueType::as_tokens: nothing for the implicit parameter.
as_tokens(s) == IF is_implicit_generic(s) THEN None ELSE Some(s.ty)
\* ScalarValueType::default_scalar
default_scalar(s) ==
    IF s.kind = "Concrete" THEN s.ty ELSE "DefaultScalarValue"

\* The first type parameter whose identifier, as a type, is `sc`
\* (0 when there is none): the find_map of attr.rs 148-160.
RECURSIVE FindTypeParam(_, _, _)
FindTypeParam(params, sc, k) ==
    IF k > Len(params) THEN 0
    ELSE IF params[k].kind = "Type" /\ params[k].ident = sc THEN k
    ELSE FindTypeParam(params, sc, k + 1)

\* A resolution that takes a parameter of any kind with the override's name.
ScalarTyAnyParam(scalar, params) ==
    IF ~IsSome(scalar) THEN ImplicitGeneric
    ELSE IF \E k \in 1..Len(params) : params[k].ident = Unwrap(scalar)
    THEN ExplicitGeneric(Unwrap(scalar))
    ELSE Concrete(Unwrap(scalar))

\* attr.rs 144-164 and 333-352: `scalar_ty`
ScalarTy(scalar, params) ==
    IF ~IsSome(scalar) THEN ImplicitGeneric
    ELSE LET k == FindTypeParam(params, Unwrap(scalar), 1)
         IN IF k # 0 THEN ExplicitGeneric(params[k].ident)
            ELSE Concrete(Unwrap(scalar))

\* attr.rs 209-213: the tokens of the scalar parameter on the trait
TraitScalar(s) ==
    IF is_explicit_generic(s) THEN Unwrap(as_tokens(s))
    ELSE "GraphQLScalarValue"

\* attr.rs 214-219: ast.generics.params of the trait after the push
TraitGenericsParams(s, params) ==
    IF ~is_explicit_generic(s)
    THEN Append(params,
                GenericParam("Type", TraitScalar(s), Some(default_scalar(s))))
    ELSE params

\* attr.rs 356-358: the tokens of the scalar parameter on the impl
ImplScalar(s) ==
    IF IsSome(as_tokens(s)) THEN Unwrap(as_tokens(s))
    ELSE "GraphQLScalarValue"

\* attr.rs 359-361: ast.generics.params of the impl after the push
ImplGenericsParams(s, params) ==
    IF is_implicit_generic(s)
    THEN Append(params, TypeParam(ImplScalar(s)))
    ELSE params

\* attr.rs 362-367: the where-predicates added to the impl
ImplWherePredicates(s) ==
    IF is_generic(s) THEN <<<<ImplScalar(s), "ScalarValue + Send + Sync">>>>
    ELSE <<>>

\* syn::PathArguments of the last segment of the implemented trait's path
PathArguments(kind, args) == [kind |-> kind, args |-> args]
PathNone == PathArguments("None", <<>>)
AngleBracketed(args) == PathArguments("AngleBracketed", args)
Parenthesized(args) == PathArguments("Parenthesized", args)

\* attr.rs 369-379: the arguments of the implemented trait's path; no
\* arguments become `<>` first, parenthesized ones are left alone
ImplTraitArgs(s, trait_params) ==
    IF is_explicit_generic(s) THEN trait_params
    ELSE LET a == IF trait_params.kind = "None" THEN AngleBracketed(<<>>)
                  ELSE trait_params
         IN IF a.kind = "AngleBracketed"
            THEN AngleBracketed(Append(a.args, ImplScalar(s)))
            ELSE a

\* Any method of the declaration is `async` (attr.rs 167-174, 325-331).
AnyAsync(ms) == \E k \in 1..Len(ms) : ms[k].asyncness

\* attr.rs 166-174: `is_async_trait`
IsAsyncTrait(m, ms) == m.asyncness \/ AnyAsync(ms)

\* A test for default bodies that forgets the asynchrony.
HasDefaultMethods(ms) == \E k \in 1..Len(ms) : ms[k].default

\* attr.rs 175-182: `has_default_async_methods`
HasDefaultAsyncMethods(ms) ==
    \E k \in 1..Len(ms) : ms[k].asyncness /\ ms[k].default

\* attr.rs 221-229: the supertraits pushed on the trait
Supertraits(s, m, ms) ==
    <<<<"AsDynGraphQLValue", TraitScalar(s)>>>>
    \o (IF IsAsyncTrait(m, ms) /\ HasDefaultAsyncMethods(ms)
        THEN <<<<"Sync", "">>>> ELSE <<>>)

\* The first Some in the sequence of options (Iterator::find_map).
RECURSIVE FirstSome(_, _)
FirstSome(opts, k) ==
    IF k > Len(opts) THEN None
    ELSE IF IsSome(opts[k]) THEN opts[k]
    ELSE FirstSome(opts, k + 1)

\* attr.rs 131-134: the first context argument of a field
FieldContextTy(f) ==
    FirstSome([a \in 1..Len(f.arguments) |-> ArgContextTy(f.arguments[a])], 1)

\* A resolution that asks the implementers before the fields.
ResolveContextImplementersFirst(m, fs, impls) ==
    IF IsSome(m.context) THEN m.context
    ELSE LET of_field ==
                 FirstSome([k \in 1..Len(fs) |-> FieldContextTy(fs[k])], 1)
             of_impler ==
                 FirstSome([k \in 1..Len(impls) |-> impls[k].context_ty], 1)
         IN IF IsSome(of_impler) THEN of_impler ELSE of_field

\* attr.rs 126-142: `context`
ResolveContext(m, fs, impls) ==
    IF IsSome(m.context) THEN m.context
    ELSE LET of_field ==
                 FirstSome([k \in 1..Len(fs) |-> FieldContextTy(fs[k])], 1)
             of_impler ==
                 FirstSome([k \in 1..Len(impls) |-> impls[k].context_ty], 1)
         IN IF IsSome(of_field) THEN of_field ELSE of_impler

S_Value == <<"V", "a", "l", "u", "e">>

\* format_ident!("{}Value", trait_ident)
ValueIdent(trait_ident) == trait_ident \o S_Value

is_trait_object(m) == IsSome(m.as_dyn)

\* An artifact identifier that ignores the `enum` option.
InterfaceTyAlwaysDerived(m) ==
    IF is_trait_object(m) THEN m.trait_ident ELSE ValueIdent(m.trait_ident)

\* attr.rs 184-191: `ty`
InterfaceTy(m) ==
    IF is_trait_object(m) THEN m.trait_ident
    ELSE IF IsSome(m.as_enum) THEN Unwrap(m.as_enum)
    ELSE ValueIdent(m.trait_ident)

\* attr.rs 193-204: `generated_code`, with the generics as declared
GeneratedCode(m, fs, impls) ==
    [name |-> InterfaceName(m), ty |-> InterfaceTy(m),
     trait_object |-> m.as_dyn,
     context |-> ResolveContext(m, fs, impls),
     scalar |-> ScalarTy(m.scalar, m.generics),
     generics |-> m.generics, fields |-> fs, implementers |-> impls]

\* attr.rs 245-254: DynValue
DynValue(m, fs, impls) ==
    [kind |-> "DynValue", ident |-> Unwrap(m.as_dyn),
     trait_ident |-> m.trait_ident,
     trait_generics |->
         TraitGenericsParams(ScalarTy(m.scalar, m.generics), m.generics),
     scalar |-> ScalarTy(m.scalar, m.generics),
     context |-> ResolveContext(m, fs, impls)]

\* attr.rs 256-303: EnumValue (the trait's associated types and constants
\* are not part of the declarations modelled here)
EnumValue(m, impls, ms) ==
    [kind |-> "EnumValue",
     ident |-> IF IsSome(m.as_enum) THEN Unwrap(m.as_enum)
               ELSE ValueIdent(m.trait_ident),
     trait_ident |-> m.trait_ident,
     trait_generics |->
         TraitGenericsParams(ScalarTy(m.scalar, m.generics), m.generics),
     variants |-> [k \in 1..Len(impls) |-> impls[k].ty],
     trait_methods |-> [k \in 1..Len(ms) |-> ms[k].ident]]

\* attr.rs 245-305: `value_type`
ValueType(m, fs, impls, ms) ==
    IF is_trait_object(m) THEN DynValue(m, fs, impls)
    ELSE EnumValue(m, impls, ms)

\* The trait as emitted: its generics, where-predicates and supertraits,
\* and whether async_trait was injected (attr.rs 206-243).
TraitAst(m, ms) ==
    LET s == ScalarTy(m.scalar, m.generics)
    IN [generics |-> TraitGenericsParams(s, m.generics),
        predicates |-> <<<<TraitScalar(s), "ScalarValue">>>>,
        supertraits |-> Supertraits(s, m, ms),
        trait_args |-> PathNone,
        async_trait |-> IsAsyncTrait(m, ms)]

\* attr.rs 126-313: everything after the second abort_if_dirty.
BuildTrait ==
    /\ pc = "build"
    /\ generated' = Some([ast |-> TraitAst(meta, items),
                          value_type |-> ValueType(meta, fields, implementers,
                                                 items),
                          generated_code |->
                              GeneratedCode(meta, fields, implementers)])
    /\ pc' = "done"
    /\ UNCHANGED <<meta, items, cursor, implementers, fields, diags,
                   fn_in, fn_out>>

\* The impl as emitted (attr.rs 354-391).
ImplAst(m, ms) ==
    LET s == ScalarTy(m.scalar, m.generics)
    IN [generics |-> ImplGenericsParams(s, m.generics),
        predicates |-> ImplWherePredicates(s),
        supertraits |-> <<>>,
        trait_args |-> ImplTraitArgs(s, m.trait_args),
        async_trait |-> IsAsyncTrait(m, ms)]

\* attr.rs 317-394: expand_on_impl
ExpandOnImpl ==
    /\ pc = "impl"
    /\ IF ~meta.ok
       THEN pc' = "error" /\ UNCHANGED generated
       ELSE /\ generated' = Some([ast |-> ImplAst(meta, items),
                                  scalar |-> ScalarTy(meta.scalar,
                                                      meta.generics)])
            /\ pc' = "done"
    /\ UNCHANGED <<meta, items, cursor, implementers, fields, diags,
                   fn_in, fn_out>>

\* The annotated item as `expand` parses it: a trait, an impl (of a trait
\* or inherent), or anything else.
Body(item, has_trait) == [item |-> item, trait_ |-> has_trait]

\* attr.rs 31-50: expand. A trait goes to expand_on_trait, an impl of a
\* trait to expand_on_impl, anything else is the "applicable to trait
\* definitions and trait implementations only" error, which records no
\* diagnostic.
Expand ==
    /\ pc = "expand"
    /\ pc' = IF Unwrap(fn_in).item = "ItemTrait" THEN "start"
             ELSE IF Unwrap(fn_in).item = "ItemImpl" /\ Unwrap(fn_in).trait_
             THEN "impl"
             ELSE "not_applicable"
    /\ UNCHANGED <<meta, items, cursor, implementers, fields, diags,
                   generated, fn_in, fn_out>>

NextExpand == Expand \/ Start \/ ExternalDowncast \/ AfterExternal
              \/ MethodItem \/ AfterMethods \/ BuildTrait \/ ExpandOnImpl

(***************************************************************************)
(* Inputs of expand: traits that get through the methods loop in several   *)
(* ways, and impls.                                                        *)
(***************************************************************************)
\* InterfaceMeta with the options that the code after the loop reads, and
\* the generics of the trait.
TraitMeta(ident, impls, ext, context, scalar, generics, asyncness, as_dyn, as_enum) ==
    [ok |-> TRUE, is_internal |-> FALSE, name |-> None,
     trait_ident |-> ident, implementers |-> impls,
     external_downcasts |-> ext, context |-> context,
     scalar |-> scalar, generics |-> generics, asyncness |-> asyncness,
     as_dyn |-> as_dyn, as_enum |-> as_enum]

\* ImplementerMeta, with the generics of the impl and the arguments of the
\* implemented trait's path.
ImplementerMeta(ok, scalar, generics, asyncness, trait_args) ==
    [ok |-> ok, scalar |-> scalar, generics |-> generics,
     asyncness |-> asyncness, trait_args |-> trait_args]

\* syn::TraitItemMethod with its `default` body, syn::ImplItemMethod
MethodWithDefault(m, default) ==
    [attrs |-> m.attrs, ident |-> m.ident, asyncness |-> m.asyncness,
     inputs |-> m.inputs, output |-> m.output, default |-> default]

\* Scalar override and generics: no override, an override that is a type
\* parameter (first or second), that is a const parameter, that is no
\* parameter.
ScalarInputs ==
    { <<None, <<>>>>,
      <<None, <<TypeParam("S")>>>>,
      <<Some("S"), <<TypeParam("S")>>>>,
      <<Some("S"), <<TypeParam("T"), TypeParam("S")>>>>,
      <<Some("S"), <<GenericParam("Const", "S", None)>>>>,
      <<Some("DefaultScalarValue"), <<TypeParam("S")>>>> }

S_DynNode == <<"D", "y", "n", "N", "o", "d", "e">>
S_NodeEnum == <<"N", "o", "d", "e", "E", "n", "u", "m">>

\* `dyn = DynNode`, `enum = NodeEnum`, or neither.
DispatchInputs == {<<None, None>>, <<Some(S_DynNode), None>>,
                   <<None, Some(S_NodeEnum)>>}

\* Declared implementers and external downcasts.
RegistryInputs ==
    { <<<<"Human">>, <<>>>>,
      <<<<"Human", "Droid">>, <<>>>>,
      <<<<"Droid", "Human">>, <<<<"Droid", "as_Droid">>>>>> }

TraitMetaInputs ==
    {TraitMeta(S_Node, r[1], r[2], c, sg[1], sg[2], a, d[1], d[2]) :
        r \in RegistryInputs, c \in {None, Some(Type(FALSE, "Ctx0"))},
        sg \in ScalarInputs, a \in BOOLEAN, d \in DispatchInputs}

ContextAttrs == ArgAttrs(FALSE, TRUE, FALSE, None, FALSE, FALSE)
IgnoreAttrs == MethodAttrs(FALSE, TRUE, FALSE, None)

\* Fields without and with context arguments, synchronous and asynchronous,
\* with and without a default body; an ignored asynchronous method with a
\* default body; downcasts with and without a context parameter.
TraitMethods ==
    { MethodWithDefault(
          Method(PlainAttrs, S_id, FALSE, <<SelfRef>>,
                 ReturnType(FALSE, "String")), FALSE),
      MethodWithDefault(
          Method(PlainAttrs, S_my_id, FALSE,
                 <<SelfRef, Typed(NoArgAttrs, PatIdent(S_ctx), T_ref_Ctx),
                   Typed(ContextAttrs, PatIdent(S_id), Type(TRUE, "Ctx2"))>>,
                 ReturnType(FALSE, "String")), FALSE),
      MethodWithDefault(
          Method(PlainAttrs, S_id, TRUE,
                 <<SelfRef,
                   Typed(NoArgAttrs, PatIdent(S_context), Type(TRUE, "Ctx2"))>>,
                 ReturnType(FALSE, "String")), FALSE),
      MethodWithDefault(
          Method(PlainAttrs, S_id, TRUE, <<SelfRef>>,
                 ReturnType(FALSE, "String")), TRUE),
      MethodWithDefault(
          Method(PlainAttrs, S_x_y, FALSE, <<SelfRef>>,
                 ReturnTypeWritten(FALSE, "Foo<>", 1, <<"'a">>)), TRUE),
      MethodWithDefault(
          Method(IgnoreAttrs, S_my_id, TRUE, <<SelfRef>>,
                 ReturnType(FALSE, "String")), TRUE),
      MethodWithDefault(
          Method(DowncastAttrs, S_as_h, FALSE,
                 <<SelfRef, Typed(NoArgAttrs, PatIdent(S_ctx),
                                  Type(TRUE, "Ctx3"))>>,
                 ReturnType(TRUE, "Human")), FALSE),
      MethodWithDefault(
          Method(DowncastAttrs, S_as_d, FALSE,
                 <<SelfRef, Typed(NoArgAttrs, PatIdent(S_ctx),
                                  Type(TRUE, "Ctx4"))>>,
                 ReturnType(TRUE, "Droid")), FALSE),
      MethodWithDefault(DowncastMethodTo(S_as_d, FALSE, "Droid"), FALSE) }

ImplMetaInputs ==
    {ImplementerMeta(TRUE, sg[1], sg[2], a, t) :
        sg \in ScalarInputs, a \in BOOLEAN,
        t \in {PathNone, AngleBracketed(<<"T">>), Parenthesized(<<"T">>)}}
    \cup {ImplementerMeta(FALSE, None, <<>>, FALSE, PathNone)}

ImplMethods ==
    { MethodWithDefault(
          Method(PlainAttrs, S_id, a, <<SelfRef>>,
                 ReturnType(FALSE, "String")), TRUE) : a \in BOOLEAN }

\* The attribute arguments of an item that is neither: never parsed.
UnparsedMeta == [ok |-> TRUE]

InitExpand ==
    /\ pc = "expand"
    /\ \/ /\ fn_in = Some(Body("ItemTrait", FALSE))
          /\ meta \in TraitMetaInputs
          /\ items \in SeqsUpTo(TraitMethods, MaxBuildMethods)
       \/ /\ fn_in = Some(Body("ItemImpl", TRUE))
          /\ meta \in ImplMetaInputs
          /\ items \in SeqsUpTo(ImplMethods, MaxBuildMethods)
       \/ /\ fn_in \in {Some(Body("ItemImpl", FALSE)),
                        Some(Body("ItemStruct", FALSE)),
                        Some(Body("ItemFn", FALSE))}
          /\ meta = UnparsedMeta
          /\ items \in SeqsUpTo(ImplMethods, 1)
    /\ cursor = 1
    /\ implementers = <<>>
    /\ fields = <<>>
    /\ diags = <<>>
    /\ generated = None
    /\ fn_out = None

SpecExpand == InitExpand /\ [][NextExpand]_vars

(***************************************************************************)
(* Vocabulary of the properties about the generated output (SpecExpand).   *)
(***************************************************************************)
IsTraitRun == "trait_ident" \in DOMAIN meta
IsImplRun == "trait_args" \in DOMAIN meta
Generated == IsSome(generated) /\ meta.ok
TraitGenerated == Generated /\ IsTraitRun
ImplGenerated == Generated /\ IsImplRun
Model == generated[1].generated_code
Artifact == generated[1].value_type
Ast == generated[1].ast

ResolvedScalar == IF IsTraitRun THEN Model.scalar ELSE generated[1].scalar

TypeParamIdents ==
    {meta.generics[k].ident :
        k \in {j \in 1..Len(meta.generics) : meta.generics[j].kind = "Type"}}

\* Three-way, by the override and the declaration's type parameters.
ScalarIsThreeWay ==
    /\ ResolvedScalar.kind \in {"ExplicitGeneric", "Concrete", "ImplicitGeneric"}
    /\ ResolvedScalar.kind = "ImplicitGeneric" <=> ~IsSome(meta.scalar)
    /\ ResolvedScalar.kind = "ExplicitGeneric"
       <=> IsSome(meta.scalar) /\ meta.scalar[1] \in TypeParamIdents
    /\ ResolvedScalar.kind = "Concrete"
       <=> IsSome(meta.scalar) /\ meta.scalar[1] \notin TypeParamIdents
    /\ ResolvedScalar.kind # "ImplicitGeneric"
       => ResolvedScalar.ty = meta.scalar[1]

\* The emitted generics are the declared ones and one new last parameter.
ParamAppended ==
    /\ Len(Ast.generics) = Len(meta.generics) + 1
    /\ SubSeq(Ast.generics, 1, Len(meta.generics)) = meta.generics
    /\ Ast.generics[Len(Ast.generics)].kind = "Type"
    /\ \A k \in 1..Len(meta.generics) :
          meta.generics[k].ident # Ast.generics[Len(Ast.generics)].ident

(***************************************************************************)
(* C11 as stated: on a trait and on an impl the scalar is resolved three   *)
(* ways by the override and the type parameters, and a new generic         *)
(* parameter is appended to the generics exactly when the result is not    *)
(* ExplicitGeneric, with a default on the trait.                           *)
(***************************************************************************)
C11_ParamUnlessExplicit ==
    Generated
    => /\ ScalarIsThreeWay
       /\ IF ResolvedScalar.kind # "ExplicitGeneric"
          THEN /\ ParamAppended
               /\ IsTraitRun => IsSome(Ast.generics[Len(Ast.generics)].default)
          ELSE Ast.generics = meta.generics

(***************************************************************************)
(* C11 amended: the scalar is resolved three ways on a trait and on an     *)
(* impl.  On the trait a new generic parameter with a default is appended  *)
(* exactly when the result is not ExplicitGeneric.  On the impl a new      *)
(* generic parameter, without default, is appended exactly when the result *)
(* is ImplicitGeneric: a Concrete scalar leaves the impl's generics as     *)
(* declared.  One argument is appended to the implemented trait's path     *)
(* exactly when the result is not ExplicitGeneric and the path's arguments *)
(* are absent or angle-bracketed; parenthesized arguments stay as written. *)
(***************************************************************************)
C11_ParamPerDeclarationKind ==
    Generated
    => /\ ScalarIsThreeWay
       /\ IsTraitRun
          => IF ResolvedScalar.kind # "ExplicitGeneric"
             THEN /\ ParamAppended
                  /\ IsSome(Ast.generics[Len(Ast.generics)].default)
             ELSE Ast.generics = meta.generics
       /\ IsImplRun
          => /\ IF ResolvedScalar.kind = "ImplicitGeneric"
                THEN /\ ParamAppended
                     /\ ~IsSome(Ast.generics[Len(Ast.generics)].default)
                ELSE Ast.generics = meta.generics
             /\ IF /\ ResolvedScalar.kind # "ExplicitGeneric"
                   /\ meta.trait_args.kind # "Parenthesized"
                THEN /\ Ast.trait_args.kind = "AngleBracketed"
                     /\ Len(Ast.trait_args.args)
                           = Len(meta.trait_args.args) + 1
                     /\ SubSeq(Ast.trait_args.args, 1,
                               Len(meta.trait_args.args))
                           = meta.trait_args.args
                ELSE Ast.trait_args = meta.trait_args

\* An impl whose override names no type parameter of the impl although a
\* const parameter has that name: Concrete, generics as declared, one more
\* argument on the trait's path.
C11_Witness ==
    /\ ImplGenerated
    /\ meta.scalar = Some("S")
    /\ meta.generics # <<>>
    /\ ResolvedScalar = Concrete("S")
    /\ Ast.generics = meta.generics
    /\ meta.trait_args = PathNone
    /\ Ast.trait_args = AngleBracketed(<<"S">>)

(***************************************************************************)
(* C12. The value type emitted for a trait is the open one exactly when    *)
(* the `dyn` option is set.  Otherwise it is the closed one: its variants  *)
(* are the implementers' types, one each and in the registry's order, its  *)
(* identifier is the `enum` option's when given and the trait's identifier *)
(* followed by `Value` when not, and that identifier is the `ty` of the    *)
(* InterfaceDefinition.                                                    *)
(***************************************************************************)
C12_OpenOrClosed ==
    TraitGenerated
    => /\ Artifact.kind \in {"DynValue", "EnumValue"}
       /\ Artifact.kind = "DynValue" <=> IsSome(meta.as_dyn)
       /\ Model.trait_object = meta.as_dyn
       /\ Artifact.kind = "EnumValue"
          => /\ Artifact.variants = RegistryTypes
             /\ Artifact.variants = meta.implementers
             /\ Len(Artifact.variants) = Len(Model.implementers)
             /\ Artifact.ident =
                   (IF IsSome(meta.as_enum) THEN meta.as_enum[1]
                    ELSE meta.trait_ident \o <<"V", "a", "l", "u", "e">>)
             /\ Artifact.ident = Model.ty

\* A closed value type named by the `enum` option, with two variants.
C12_Witness ==
    /\ TraitGenerated
    /\ meta.as_enum = Some(S_NodeEnum)
    /\ Artifact.kind = "EnumValue"
    /\ Artifact.ident = S_NodeEnum
    /\ Model.ty = S_NodeEnum
    /\ Artifact.variants = <<"Droid", "Human">>

(***************************************************************************)
(* Vocabulary of the properties about asynchrony.                          *)
(***************************************************************************)
HasSync == \E k \in 1..Len(Ast.supertraits) : Ast.supertraits[k][1] = "Sync"

\* Method j is one of the methods that became fields.
IsFieldMethod(j) == IsAcceptedField(items[j])

(***************************************************************************)
(* C13 as stated: the trait is asynchronous when it is marked so or a      *)
(* field method is `async`, and `Sync` is attached exactly when the trait  *)
(* is asynchronous and a field method is `async` with a default body:      *)
(* ignored methods do not count.                                           *)
(***************************************************************************)
C13_SyncByFieldMethods ==
    TraitGenerated
    => /\ meta.asyncness \/ (\E k \in 1..Len(fields) : fields[k].is_async)
          => Ast.async_trait
       /\ HasSync
          <=> /\ Ast.async_trait
              /\ \E j \in 1..Len(items) :
                    /\ IsFieldMethod(j)
                    /\ items[j].asyncness
                    /\ items[j].default

(***************************************************************************)
(* C13 amended: the trait is asynchronous exactly when it is marked so or  *)
(* any of its methods, field or ignored, is `async`, and `Sync` is         *)
(* attached exactly when one of its methods, field or ignored, is `async`  *)
(* with a default body; the trait is then asynchronous.                    *)
(***************************************************************************)
C13_SyncByAnyMethod ==
    TraitGenerated
    => /\ Ast.async_trait
          <=> meta.asyncness \/ (\E j \in 1..Len(items) : items[j].asyncness)
       /\ HasSync
          <=> \E j \in 1..Len(items) : items[j].asyncness /\ items[j].default
       /\ HasSync => Ast.async_trait
       /\ meta.asyncness \/ (\E k \in 1..Len(fields) : fields[k].is_async)
          => Ast.async_trait

\* A trait whose only `async` method with a default body is ignored, and
\* which gets `Sync`.
C13_Witness ==
    /\ TraitGenerated
    /\ ~meta.asyncness
    /\ \E j \in 1..Len(items) : items[j].asyncness /\ items[j].default
    /\ \A j \in 1..Len(items) : items[j].asyncness => items[j].attrs.ignore
    /\ Ast.async_trait
    /\ HasSync

(***************************************************************************)
(* Vocabulary of the properties about the context.                         *)
(***************************************************************************)
HasContextArgument(f) ==
    \E a \in 1..Len(f.arguments) : f.arguments[a].kind = "Context"

FirstContextArgument(f) ==
    f.arguments[CHOOSE a \in 1..Len(f.arguments) :
                    /\ f.arguments[a].kind = "Context"
                    /\ \A b \in 1..(a - 1) : f.arguments[b].kind # "Context"]

FieldsWithContext == {k \in 1..Len(fields) : HasContextArgument(fields[k])}
ImplementersWithContext ==
    {k \in 1..Len(implementers) : IsSome(implementers[k].context_ty)}

Least(S) == CHOOSE k \in S : \A j \in S : k <= j

\* The context by the precedence: the option, the first field that has a
\* context argument, the first implementer that has a context type.
ContextByPrecedence ==
    IF IsSome(meta.context) THEN meta.context
    ELSE IF FieldsWithContext # {}
    THEN Some(FirstContextArgument(fields[Least(FieldsWithContext)]).ty)
    ELSE IF ImplementersWithContext # {}
    THEN implementers[Least(ImplementersWithContext)].context_ty
    ELSE None

(***************************************************************************)
(* C14. The context of the InterfaceDefinition is the `context` option if  *)
(* present, else the type of the first context argument of the first field *)
(* that has one, else the context type of the first implementer of the     *)
(* registry whose downcast method takes a context, else none; the open     *)
(* value type has the same context.                                        *)
(***************************************************************************)
C14_ContextPrecedence ==
    TraitGenerated
    => /\ Model.context = ContextByPrecedence
       /\ Artifact.kind = "DynValue" => Artifact.context = Model.context
       /\ \A k \in 1..Len(implementers) :
             IsSome(implementers[k].context_ty)
             <=> /\ IsSome(implementers[k].downcast)
                 /\ implementers[k].downcast[1].kind = "Method"
                 /\ implementers[k].downcast[1].with_context

\* No `context` option, a field with a context argument declared after a
\* downcast method that takes another context: the field's type wins.
C14_Witness ==
    /\ TraitGenerated
    /\ ~IsSome(meta.context)
    /\ FieldsWithContext # {}
    /\ ImplementersWithContext # {}
    /\ items[1].attrs.downcast
    /\ Model.context = Some(Type(FALSE, "Ctx2"))
    /\ implementers[Least(ImplementersWithContext)].context_ty
          # Model.context

====
